---- MODULE Spec2Model ----
(***************************************************************************)
(* DataStats: per-SKU statistical process control metrics.                 *)
(*                                                                         *)
(*   app/statistics/stats.py       get_mean, get_variance, get_std_dev,    *)
(*                                 get_sigma (pandas groupby aggregates)   *)
(*   app/database/...              DatabaseManager and the update_* upserts*)
(*   app/manual_run.py             do_analysis, the pipeline               *)
(*   app/main.py, automation/auto.py  run_analysis, auto_run               *)
(*                                                                         *)
(* SpecStats, SpecDb, SpecRun and SpecMain run against a reachable server  *)
(* over an open connection; SpecConn is the connection handling of         *)
(* DatabaseManager with a server that comes and goes.                      *)
(*                                                                         *)
(* Numbers.  Measurement values are integers.  A mean, a variance and a    *)
(* margin are exact rationals [k |-> "num", n, d] (d > 0, lowest terms) or *)
(* the float NaN [k |-> "nan"].  A standard deviation and a sigma level    *)
(* are signed square roots of rationals: [k |-> "num", sg, n, d] stands    *)
(* for sg * sqrt(n/d), sg in {-1, 0, 1}.  Floating-point rounding is not   *)
(* modelled.                                                               *)
(***************************************************************************)
EXTENDS Integers, Sequences, FiniteSets, Bags, TLC

(* ------------------------------ bounds -------------------------------- *)

MaxLen == 3

\* the number of runs of do_analysis against one database
MaxRuns == 2

\* the number of calls of the persistence routines in one behaviour
MaxOps == 4

\* the number of weekly trigger instants that pass in one behaviour
MaxFirings == 2

\* the SKU names of the datasets, in sorted order: 'Ochk 70g' has default
\* specification limits, 'New 70g' has none
SkuOrder == <<"New 70g", "Ochk 70g">>

SKUs == {SkuOrder[i] : i \in DOMAIN SkuOrder}
Values == {63, 65, 67}
LSLValues == {60, 64}
USLValues == {70}

(* -------------------------------- state -------------------------------- *)

VARIABLES
    df,             \* the dataset: a sequence of rows [Sku, Value]
    LSL, USL,       \* optional dicts sku -> limit, [none, map]
    mean_dict, variance_dict, std_dev_dict, sigma_dict,
    called,         \* the statistics operations that have returned
    stdout,         \* the SKUs named by a printed warning
    raised,         \* the exception that escaped, or "none"
    tables,         \* the database: table name -> [exists, rows]
    log,            \* the last record handed to the logger
    TABLE_NAME,     \* core/config.py, from the environment
    VISUALIZE,      \* core/config.py, from the environment
    NAN_AS_NULL,    \* whether the installed connector sends NaN as NULL
    excel,          \* the rows of EXCEL_FILE
    pc,             \* the statement do_analysis executes next
    trace,          \* the statements the current run has executed
    runs,           \* the runs of do_analysis started so far
    ops,            \* the calls of the persistence routines made so far
    mode,           \* sys.argv[1], the argument of run_analysis
    AUTO_RUN,       \* core/config.py, from the environment
    connection,     \* db_manager.connection: "None", "open" or "closed"
    server,         \* the MySQL server: "up" or "down"
    main,           \* the position of the process in main.py and auto.py
    jobs,           \* schedule's job list
    fired           \* the Mondays 08:00 that have passed

statsVars == <<df, LSL, USL, mean_dict, variance_dict, std_dev_dict,
               sigma_dict, called, stdout, raised>>

configVars == <<TABLE_NAME, VISUALIZE, NAN_AS_NULL, excel, mode, AUTO_RUN>>

connVars == <<connection, server>>

mainVars == <<main, jobs, fired>>

runVars == <<pc, trace, runs, ops>>

dbVars == <<tables, log>>

vars == <<statsVars, dbVars, configVars, connVars, mainVars, runVars>>

(* --------------------------- exact arithmetic -------------------------- *)

Abs(x) == IF x < 0 THEN -x ELSE x

Sign(x) == IF x < 0 THEN -1 ELSE IF x = 0 THEN 0 ELSE 1

RECURSIVE GCD(_, _)
GCD(a, b) == IF b = 0 THEN a ELSE GCD(b, a % b)

RECURSIVE SumOver(_, _)
\* the sum of w[i] over the indices i in I
SumOver(I, w) ==
    IF I = {} THEN 0
    ELSE LET i == CHOOSE j \in I : TRUE IN w[i] + SumOver(I \ {i}, w)

RECURSIVE Isqrt(_)
\* the integer part of the square root of x >= 0
Isqrt(x) ==
    IF x < 2 THEN x
    ELSE LET s == 2 * Isqrt(x \div 4)
         IN  IF (s + 1) * (s + 1) <= x THEN s + 1 ELSE s

NaN == [k |-> "nan", n |-> 0, d |-> 1]

IsNaN(x) == x.k = "nan"

\* the rational n/d in lowest terms, d > 0
Rat(n, d) ==
    LET g == GCD(Abs(n), Abs(d))
        s == IF d < 0 THEN -1 ELSE 1
    IN  [k |-> "num", n |-> (s * n) \div g, d |-> (s * d) \div g]

FromInt(i) == [k |-> "num", n |-> i, d |-> 1]

\* float subtraction x - y
RSub(x, y) ==
    IF IsNaN(x) \/ IsNaN(y) THEN NaN
    ELSE Rat(x.n * y.d - y.n * x.d, x.d * y.d)

RMul(x, y) ==
    IF IsNaN(x) \/ IsNaN(y) THEN NaN ELSE Rat(x.n * y.n, x.d * y.d)

\* x < y on floats: every comparison with NaN is False
RLess(x, y) ==
    IF IsNaN(x) \/ IsNaN(y) THEN FALSE ELSE x.n * y.d < y.n * x.d

\* max(a, b) in place of min(a, b): the larger margin
PyMax(a, b) == IF RLess(a, b) THEN b ELSE a

\* Python's builtin min(a, b): b if b < a else a
PyMin(a, b) == IF RLess(b, a) THEN b ELSE a

SurdNaN == [k |-> "nan", sg |-> 0, n |-> 0, d |-> 1]

\* sg * sqrt(n/d)
Surd(sg, n, d) ==
    LET q == Rat(n, d)
    IN  [k |-> "num", sg |-> IF q.n = 0 THEN 0 ELSE sg, n |-> q.n, d |-> q.d]

\* numpy sqrt of a non-negative float: NaN stays NaN
Sqrt(x) == IF IsNaN(x) THEN SurdNaN ELSE Surd(1, x.n, x.d)

\* the square of a signed root, a rational
Square(s) == IF IsNaN(s) THEN NaN ELSE Rat(s.n, s.d)

\* std == 0 on floats: False for NaN
SurdIsZero(s) == ~IsNaN(s) /\ s.sg = 0

\* x / s for a rational x and a non-zero root s:
\* x / sqrt(q) = sign(x) * sqrt(x^2 / q)
DivBySurd(x, s) ==
    IF IsNaN(x) \/ IsNaN(s) THEN SurdNaN
    ELSE Surd(Sign(x.n) * s.sg, x.n * x.n * s.d, x.d * x.d * s.n)

\* s * t for two roots
SurdMul(s, t) ==
    IF IsNaN(s) \/ IsNaN(t) THEN SurdNaN
    ELSE Surd(s.sg * t.sg, s.n * t.n, s.d * t.d)

\* the root equal to the rational x
SurdOfRat(x) ==
    IF IsNaN(x) THEN SurdNaN ELSE Surd(Sign(x.n), x.n * x.n, x.d * x.d)

(* ------------------------ app/statistics/stats.py ---------------------- *)

RECURSIVE SumSeq(_)
SumSeq(s) == IF s = <<>> THEN 0 ELSE Head(s) + SumSeq(Tail(s))

RECURSIVE AllValues(_, _)
\* the 'Value' column of every row: the aggregate without the grouping
AllValues(frame, sku) ==
    IF frame = <<>> THEN <<>>
    ELSE <<Head(frame).Value>> \o AllValues(Tail(frame), sku)

RECURSIVE ValuesOf(_, _)
\* the 'Value' column of the rows of frame whose 'Sku' is sku, in row order
ValuesOf(frame, sku) ==
    IF frame = <<>> THEN <<>>
    ELSE IF Head(frame).Sku = sku
         THEN <<Head(frame).Value>> \o ValuesOf(Tail(frame), sku)
         ELSE ValuesOf(Tail(frame), sku)

\* df.groupby('Sku')['Value']: one group of values per distinct Sku
GroupBy(frame) ==
    [sku \in {frame[i].Sku : i \in DOMAIN frame} |-> ValuesOf(frame, sku)]

\* SeriesGroupBy.mean() of one group
GroupMean(vals) == Rat(SumSeq(vals), Len(vals))

RECURSIVE SumSqDev(_, _)
\* sum of (v - mean)^2 over vals
SumSqDev(vals, mean) ==
    IF vals = <<>> THEN FromInt(0)
    ELSE LET dev == RSub(FromInt(Head(vals)), mean)
             rest == SumSqDev(Tail(vals), mean)
             sq == RMul(dev, dev)
         IN  Rat(sq.n * rest.d + rest.n * sq.d, sq.d * rest.d)

\* the delta degrees of freedom pandas uses by default for var() and std()
Ddof == 1

\* the population variance (ddof=0): the denominator is the group size
GroupVarPopulation(vals) ==
    LET ss == SumSqDev(vals, GroupMean(vals))
    IN  Rat(ss.n, ss.d * Len(vals))

\* SeriesGroupBy.var(ddof=1) of one group: NaN when the group has
\* no more than ddof values
GroupVar(vals) ==
    IF Len(vals) <= Ddof THEN NaN
    ELSE LET ss == SumSqDev(vals, GroupMean(vals))
         IN  Rat(ss.n, ss.d * (Len(vals) - Ddof))

\* the population standard deviation (ddof=0)
GroupStdPopulation(vals) == Sqrt(GroupVarPopulation(vals))

\* SeriesGroupBy.std(ddof=1) of one group: the square root of var
GroupStd(vals) == Sqrt(GroupVar(vals))

\* a groupby that reports every known SKU (as a categorical 'Sku' column
\* with observed=False does), NaN for the SKUs without rows
get_mean_all_categories(frame) ==
    [sku \in SKUs |->
        IF ValuesOf(frame, sku) = <<>> THEN NaN
        ELSE GroupMean(ValuesOf(frame, sku))]

get_mean(frame) ==
    LET g == GroupBy(frame) IN [sku \in DOMAIN g |-> GroupMean(g[sku])]

get_variance(frame) ==
    LET g == GroupBy(frame) IN [sku \in DOMAIN g |-> GroupVar(g[sku])]

get_std_dev(frame) ==
    LET g == GroupBy(frame) IN [sku \in DOMAIN g |-> GroupStd(g[sku])]

\* the empty dict
EmptyMap == [sku \in {} |-> 0]

\* an optional dict: a dict, or Python's None
Some(m) == [none |-> FALSE, map |-> m]

None == [none |-> TRUE, map |-> EmptyMap]

\* the loop body without the zero check of line 75: the division by a zero
\* std gives a float that is no number
SigmaStepNoZeroCheck(sku, mean, std_dict, lsl, usl) ==
    IF ~(sku \in DOMAIN lsl /\ sku \in DOMAIN usl /\ sku \in DOMAIN std_dict)
    THEN [act |-> "skip", sigma |-> SurdNaN]
    ELSE LET std == std_dict[sku]
             sigma_upper == RSub(usl[sku], mean)
             sigma_lower == RSub(mean, lsl[sku])
         IN  [act |-> "set",
              sigma |-> IF SurdIsZero(std) THEN SurdNaN
                        ELSE DivBySurd(PyMin(sigma_upper, sigma_lower), std)]

\* the loop body with a zero branch that continues without printing
SigmaStepSilentZero(sku, mean, std_dict, lsl, usl) ==
    IF ~(sku \in DOMAIN lsl /\ sku \in DOMAIN usl /\ sku \in DOMAIN std_dict)
    THEN [act |-> "skip", sigma |-> SurdNaN]
    ELSE LET std == std_dict[sku] IN
         IF SurdIsZero(std)
         THEN [act |-> "skip", sigma |-> SurdNaN]
         ELSE LET sigma_upper == RSub(usl[sku], mean)
                  sigma_lower == RSub(mean, lsl[sku])
              IN  [act |-> "set",
                   sigma |-> DivBySurd(PyMin(sigma_upper, sigma_lower), std)]

\* One SKU of get_sigma's loop.  "skip": the guard on line 71 is false;
\* "warn": the zero-std branch printed its warning and continued;
\* "set": sigma_dict[sku] was assigned.
SigmaStep(sku, mean, std_dict, lsl, usl) ==
    IF ~(sku \in DOMAIN lsl /\ sku \in DOMAIN usl /\ sku \in DOMAIN std_dict)
    THEN [act |-> "skip", sigma |-> SurdNaN]
    ELSE LET std == std_dict[sku] IN
         IF SurdIsZero(std)
         THEN [act |-> "warn", sigma |-> SurdNaN]
         ELSE LET sigma_upper == RSub(usl[sku], mean)
                  sigma_lower == RSub(mean, lsl[sku])
              IN  [act |-> "set",
                   sigma |-> DivBySurd(PyMin(sigma_upper, sigma_lower), std)]

\* get_sigma with a loop that deletes from LSL the SKUs it leaves out
get_sigma_pruning_LSL(frame, lsl, usl) ==
    LET mean_d == get_mean(frame)
        std_d == get_std_dev(frame)
    IN  IF DOMAIN mean_d # {} /\ (lsl.none \/ usl.none)
        THEN [ret |-> EmptyMap, raised |-> "TypeError", printed |-> {},
              args |-> [df |-> frame, LSL |-> lsl, USL |-> usl]]
        ELSE LET step == [sku \in DOMAIN mean_d |->
                             SigmaStep(sku, mean_d[sku], std_d, lsl.map, usl.map)]
                 keys == {sku \in DOMAIN mean_d : step[sku].act = "set"}
             IN  [ret |-> [sku \in keys |-> step[sku].sigma],
                  raised |-> "none",
                  printed |-> {sku \in DOMAIN mean_d : step[sku].act = "warn"},
                  args |-> [df |-> frame,
                            LSL |-> [lsl EXCEPT !.map =
                                        [sku \in DOMAIN lsl.map \ (DOMAIN mean_d \ keys)
                                            |-> lsl.map[sku]]],
                            USL |-> usl]]

\* get_sigma(df, LSL, USL).  lsl and usl are optional dicts of floats
\* [none |-> BOOLEAN, map |-> dict]: for None, `sku in LSL` raises TypeError
\* on the first SKU of the loop.  The arguments are passed by reference;
\* args is what they hold when the call ends: the body reads df through
\* get_mean and get_std_dev, reads LSL[sku] and USL[sku], and assigns only
\* into its own sigma_dict.
get_sigma(frame, lsl, usl) ==
    LET mean_d == get_mean(frame)
        std_d == get_std_dev(frame)
    IN  IF DOMAIN mean_d # {} /\ (lsl.none \/ usl.none)
        THEN [ret |-> EmptyMap, raised |-> "TypeError", printed |-> {},
              args |-> [df |-> frame, LSL |-> lsl, USL |-> usl]]
        ELSE LET step == [sku \in DOMAIN mean_d |->
                             SigmaStep(sku, mean_d[sku], std_d, lsl.map, usl.map)]
                 keys == {sku \in DOMAIN mean_d : step[sku].act = "set"}
             IN  [ret |-> [sku \in keys |-> step[sku].sigma],
                  raised |-> "none",
                  printed |-> {sku \in DOMAIN mean_d : step[sku].act = "warn"},
                  args |-> [df |-> frame, LSL |-> lsl, USL |-> usl]]

(* --------------------- app/database/database_object.py ----------------- *)

\* A cell of a DECIMAL(10, 2) DEFAULT NULL column: NULL, or a number of
\* hundredths.
Null == [null |-> TRUE, v |-> 0]

Dec(hundredths) == [null |-> FALSE, v |-> hundredths]

\* a float stored into a DECIMAL(10, 2) column: rounded to two fractional
\* digits, half away from zero
ToDecimal(x) ==
    IF "sg" \in DOMAIN x
    THEN x.sg * ((Isqrt((40000 * x.n) \div x.d) + 1) \div 2)
    ELSE Sign(x.n) * ((200 * Abs(x.n) + x.d) \div (2 * x.d))

\* float(cell) of a fetched DECIMAL
ToFloat(cell) == Rat(cell.v, 100)

TableNames == {"noodles_data", "sku_stats"}

\* the rows update_table_default inserts: sku, lsl, usl
DefaultRows ==
    << <<"Ochk 70g", 62, 68>>, <<"Mmchk 70g", 64, 68>>,
       <<"Rchk 120g", 112, 122>>, <<"RCHK 70g", 66, 72>>,
       <<"Mchk 70g", 64, 68>>, <<"Rchk 180g", 168, 182>> >>

\* A row of the table of create_table.  The AUTO_INCREMENT id, which no
\* statement of the program reads or sets, is left out: a table is a bag of
\* rows, so that it can hold two rows of one sku.
NewRow(sku) ==
    [sku |-> sku, lsl |-> Null, usl |-> Null, mean |-> Null,
     variance |-> Null, std_dev |-> Null, sigma_level |-> Null]

NoTable == [exists |-> FALSE, rows |-> EmptyBag]

\* a record of core/logger.py: level, message, and the table the message
\* (or the server's error in it) names
Logged(level, msg, table) == [level |-> level, msg |-> msg, table |-> table]

NoLog == Logged("none", "", "")

\* the database and the logger, as the DatabaseManager methods see them
Db == [tables |-> tables, log |-> log]

RowsWithSku(rows, sku) == {r \in BagToSet(rows) : r.sku = sku}

\* UPDATE col = cell on the rows whose sku is sku
SetColumn(rows, sku, col, cell) ==
    LET img(r) == IF r.sku = sku THEN [r EXCEPT ![col] = cell] ELSE r
        old == BagToSet(rows)
    IN  [t \in {img(r) : r \in old} |->
            SumOver({r \in old : img(r) = t}, rows)]

\* CREATE TABLE IF NOT EXISTS
create_table(db, table_name) ==
    [tables |-> IF db.tables[table_name].exists THEN db.tables
                ELSE [db.tables EXCEPT
                         ![table_name] = [exists |-> TRUE, rows |-> EmptyBag]],
     log |-> Logged("info", "Table created successfully", table_name)]

\* INSERT IGNORE INTO t (sku, lsl, usl): the row whose sku is already there
\* (sku is UNIQUE) is dropped from the insert
InsertIgnore(rows, d) ==
    IF RowsWithSku(rows, d[1]) # {} THEN rows
    ELSE rows (+) SetToBag({[NewRow(d[1]) EXCEPT !.lsl = Dec(100 * d[2]),
                                                 !.usl = Dec(100 * d[3])]})

RECURSIVE InsertIgnoreAll(_, _)
InsertIgnoreAll(rows, ds) ==
    IF ds = <<>> THEN rows
    ELSE InsertIgnoreAll(InsertIgnore(rows, Head(ds)), Tail(ds))

\* update_table_default: on a missing table the statement fails, the Error
\* is logged and nothing changes
update_table_default(db, table_name) ==
    IF ~db.tables[table_name].exists
    THEN [db EXCEPT !.log = Logged("error",
                                   "Error inserting data: Table doesn't exist",
                                   table_name)]
    ELSE [tables |-> [db.tables EXCEPT
                         ![table_name].rows = InsertIgnoreAll(@, DefaultRows)],
          log |-> Logged("info", "Data inserted successfully", table_name)]

\* an INSERT of every call, whether or not the sku is there: the statement
\* without its ON DUPLICATE KEY UPDATE on a table without the UNIQUE key
PlainInsert(rows, col, sku, cell) ==
    rows (+) SetToBag({[NewRow(sku) EXCEPT ![col] = cell]})

\* INSERT INTO t (sku, col) VALUES (sku, cell)
\*     ON DUPLICATE KEY UPDATE col = VALUES(col)
Upsert(rows, col, sku, cell) ==
    IF RowsWithSku(rows, sku) # {} THEN SetColumn(rows, sku, col, cell)
    ELSE rows (+) SetToBag({[NewRow(sku) EXCEPT ![col] = cell]})

\* update_table(db_name, table_name, query, sku, param) for the upsert
\* queries of update_dbstats.py; table is the table named in the query and
\* col its metric column, table_name is only logged.  The statement fails
\* (the Error is logged, the transaction rolled back) on a missing table.
\* A NaN param has no DECIMAL value: the connector either sends it as NULL
\* (nan_as_null) or as the word nan, which the server rejects.
update_table(db, table_name, table, col, sku, param, nan_as_null) ==
    LET failed(e) == [db EXCEPT !.log = Logged("error",
                          "Error inserting data: " \o e \o ", All changes undone",
                          table)]
        stored(cell) ==
            [tables |-> [db.tables EXCEPT ![table].rows = Upsert(@, col, sku, cell)],
             log |-> Logged("info", "Data inserted successfully", table_name)]
    IN  IF ~db.tables[table].exists THEN failed("Table doesn't exist")
        ELSE IF IsNaN(param)
             THEN IF nan_as_null THEN stored(Null)
                  ELSE failed("Unknown column 'nan' in 'field list'")
             ELSE stored(Dec(ToDecimal(param)))

\* SELECT sku, col FROM table_name; {sku: float(col) for sku, col in results}.
\* A missing table: the Error is logged and None returned.  A NULL cell:
\* float(None) raises TypeError, which the handler does not catch.
get_limits(db, table_name, col, error_msg) ==
    IF ~db.tables[table_name].exists
    THEN [ret |-> None, raised |-> "none",
          log |-> Logged("error", error_msg \o ": Table doesn't exist", table_name)]
    ELSE LET rows == BagToSet(db.tables[table_name].rows) IN
         IF \E r \in rows : r[col].null
         THEN [ret |-> None, raised |-> "TypeError", log |-> db.log]
         ELSE [ret |-> Some([sku \in {r.sku : r \in rows} |->
                               ToFloat((CHOOSE r \in rows : r.sku = sku)[col])]),
               raised |-> "none", log |-> db.log]

get_lsl(db, table_name) == get_limits(db, table_name, "lsl", "Error getting LSL")

get_usl(db, table_name) == get_limits(db, table_name, "usl", "Error getting USL")

(* --------------------- app/database/update_dbstats.py ------------------ *)

\* json.items(): the keys of a dict, in sorted order as groupby leaves them
Items(json) == SelectSeq(SkuOrder, LAMBDA sku : sku \in DOMAIN json)

RECURSIVE UpdateEach(_, _, _, _, _, _, _)
\* for sku, value in json.items():
\*     db_manager.update_table(DB_NAME, table_name, query, sku, value)
\* where query is the upsert into column col of table
UpdateEach(db, table_name, table, col, json, keys, nan_as_null) ==
    IF keys = <<>> THEN db
    ELSE UpdateEach(update_table(db, table_name, table, col, Head(keys),
                                 json[Head(keys)], nan_as_null),
                    table_name, table, col, json, Tail(keys), nan_as_null)

update_mean(db, mean_json, table, nan_as_null) ==
    UpdateEach(db, table, table, "mean", mean_json, Items(mean_json), nan_as_null)

update_std_dev(db, std_dev_json, table, nan_as_null) ==
    UpdateEach(db, table, table, "std_dev", std_dev_json, Items(std_dev_json),
               nan_as_null)

update_variance(db, variance_json, table, nan_as_null) ==
    UpdateEach(db, table, table, "variance", variance_json, Items(variance_json),
               nan_as_null)

\* update_sigma with a query that names TABLE_NAME in place of table
update_sigma_into_TABLE_NAME(db, sigma_json, table, nan_as_null) ==
    UpdateEach(db, TABLE_NAME, TABLE_NAME, "sigma_level", sigma_json,
               Items(sigma_json), nan_as_null)

\* the query names table; the table_name handed to update_table, which is
\* logged, is TABLE_NAME
update_sigma(db, sigma_json, table, nan_as_null) ==
    UpdateEach(db, TABLE_NAME, table, "sigma_level", sigma_json, Items(sigma_json),
               nan_as_null)


Rows == [Sku : SKUs, Value : Values]

Frames == UNION {[1..n -> Rows] : n \in 0..MaxLen}

\* the dicts from some of the SKUs to the floats of V
PartialMaps(V) == UNION {[K -> {FromInt(v) : v \in V}] : K \in SUBSET SKUs}

(* ------------- the statistics engine on arbitrary inputs --------------- *)

InitStats ==
    /\ df \in Frames
    /\ LSL \in {Some(m) : m \in PartialMaps(LSLValues)}
    /\ USL \in {Some(m) : m \in PartialMaps(USLValues)}
    /\ mean_dict = EmptyMap
    /\ variance_dict = EmptyMap
    /\ std_dev_dict = EmptyMap
    /\ sigma_dict = EmptyMap
    /\ called = {}
    /\ stdout = {}
    /\ raised = "none"
    /\ tables = [t \in TableNames |-> NoTable]
    /\ log = NoLog
    /\ TABLE_NAME = "noodles_data"
    /\ VISUALIZE = FALSE
    /\ NAN_AS_NULL = FALSE
    /\ excel = <<>>
    /\ pc = "idle"
    /\ trace = <<>>
    /\ runs = 0
    /\ ops = 0
    /\ mode = "default"
    /\ AUTO_RUN = FALSE
    /\ connection = "open"
    /\ server = "up"
    /\ main = "start"
    /\ jobs = <<>>
    /\ fired = 0

CallGetMean ==
    /\ "get_mean" \notin called
    /\ mean_dict' = get_mean(df)
    /\ called' = called \cup {"get_mean"}
    /\ UNCHANGED <<df, LSL, USL, variance_dict, std_dev_dict, sigma_dict,
                   stdout, raised, dbVars, configVars, connVars, mainVars, runVars>>

CallGetVariance ==
    /\ "get_variance" \notin called
    /\ variance_dict' = get_variance(df)
    /\ called' = called \cup {"get_variance"}
    /\ UNCHANGED <<df, LSL, USL, mean_dict, std_dev_dict, sigma_dict,
                   stdout, raised, dbVars, configVars, connVars, mainVars, runVars>>

CallGetStdDev ==
    /\ "get_std_dev" \notin called
    /\ std_dev_dict' = get_std_dev(df)
    /\ called' = called \cup {"get_std_dev"}
    /\ UNCHANGED <<df, LSL, USL, mean_dict, variance_dict, sigma_dict,
                   stdout, raised, dbVars, configVars, connVars, mainVars, runVars>>

CallGetSigma ==
    /\ "get_sigma" \notin called
    /\ LET r == get_sigma(df, LSL, USL) IN
        /\ sigma_dict' = r.ret
        /\ stdout' = stdout \cup r.printed
        /\ raised' = r.raised
        /\ df' = r.args.df
        /\ LSL' = r.args.LSL
        /\ USL' = r.args.USL
    /\ called' = called \cup {"get_sigma"}
    /\ UNCHANGED <<mean_dict, variance_dict, std_dev_dict,
                   dbVars, configVars, connVars, mainVars, runVars>>

NextStats ==
    \/ CallGetMean
    \/ CallGetVariance
    \/ CallGetStdDev
    \/ CallGetSigma

SpecStats == InitStats /\ [][NextStats]_vars

(* ---------------- the persistence routines on arbitrary inputs --------- *)

\* the floats handed to update_mean: the mean of a group is a number
MeanFloats == {Rat(196, 3)}

\* the floats handed to update_variance: NaN for a single-sample group
MetricFloats == {Rat(196, 3), NaN}

\* the floats handed to update_std_dev and update_sigma: NaN for a
\* single-sample group
MetricRoots == {Surd(1, 8, 1), SurdNaN}

Jsons(V) == UNION {[K -> V] : K \in SUBSET SKUs}

InitDb ==
    /\ tables = [t \in TableNames |-> NoTable]
    /\ log = NoLog
    /\ NAN_AS_NULL \in BOOLEAN
    /\ TABLE_NAME = "noodles_data"
    /\ VISUALIZE = FALSE
    /\ excel = <<>>
    /\ df = <<>>
    /\ LSL = None
    /\ USL = None
    /\ mean_dict = EmptyMap
    /\ variance_dict = EmptyMap
    /\ std_dev_dict = EmptyMap
    /\ sigma_dict = EmptyMap
    /\ called = {}
    /\ stdout = {}
    /\ raised = "none"
    /\ pc = "idle"
    /\ trace = <<>>
    /\ runs = 0
    /\ ops = 0
    /\ mode = "default"
    /\ AUTO_RUN = FALSE
    /\ connection = "open"
    /\ server = "up"
    /\ main = "start"
    /\ jobs = <<>>
    /\ fired = 0

CallCreateTable(t) ==
    /\ ops < MaxOps
    /\ LET r == create_table(Db, t) IN tables' = r.tables /\ log' = r.log
    /\ ops' = ops + 1
    /\ UNCHANGED <<statsVars, configVars, connVars, mainVars, pc, trace, runs>>

CallUpdateTableDefault(t) ==
    /\ ops < MaxOps
    /\ LET r == update_table_default(Db, t) IN tables' = r.tables /\ log' = r.log
    /\ ops' = ops + 1
    /\ UNCHANGED <<statsVars, configVars, connVars, mainVars, pc, trace, runs>>

CallUpdateMean(json, t) ==
    /\ ops < MaxOps
    /\ LET r == update_mean(Db, json, t, NAN_AS_NULL) IN tables' = r.tables /\ log' = r.log
    /\ ops' = ops + 1
    /\ UNCHANGED <<statsVars, configVars, connVars, mainVars, pc, trace, runs>>

CallUpdateVariance(json, t) ==
    /\ ops < MaxOps
    /\ LET r == update_variance(Db, json, t, NAN_AS_NULL) IN tables' = r.tables /\ log' = r.log
    /\ ops' = ops + 1
    /\ UNCHANGED <<statsVars, configVars, connVars, mainVars, pc, trace, runs>>

CallUpdateStdDev(json, t) ==
    /\ ops < MaxOps
    /\ LET r == update_std_dev(Db, json, t, NAN_AS_NULL) IN tables' = r.tables /\ log' = r.log
    /\ ops' = ops + 1
    /\ UNCHANGED <<statsVars, configVars, connVars, mainVars, pc, trace, runs>>

CallUpdateSigma(json, t) ==
    /\ ops < MaxOps
    /\ LET r == update_sigma(Db, json, t, NAN_AS_NULL) IN tables' = r.tables /\ log' = r.log
    /\ ops' = ops + 1
    /\ UNCHANGED <<statsVars, configVars, connVars, mainVars, pc, trace, runs>>

\* LSL = db_manager.get_lsl(DB_NAME, table_name=t)
CallGetLsl(t) ==
    /\ ops < MaxOps
    /\ LET r == get_lsl(Db, t) IN
          /\ log' = r.log
          /\ raised' = r.raised
          /\ LSL' = IF r.raised = "none" THEN r.ret ELSE LSL
    /\ ops' = ops + 1
    /\ UNCHANGED <<df, USL, mean_dict, variance_dict, std_dev_dict, sigma_dict,
                   called, stdout, tables, configVars, connVars, mainVars,
                   pc, trace, runs>>

\* USL = db_manager.get_usl(DB_NAME, table_name=t)
CallGetUsl(t) ==
    /\ ops < MaxOps
    /\ LET r == get_usl(Db, t) IN
          /\ log' = r.log
          /\ raised' = r.raised
          /\ USL' = IF r.raised = "none" THEN r.ret ELSE USL
    /\ ops' = ops + 1
    /\ UNCHANGED <<df, LSL, mean_dict, variance_dict, std_dev_dict, sigma_dict,
                   called, stdout, tables, configVars, connVars, mainVars,
                   pc, trace, runs>>

NextDb ==
    \/ \E t \in TableNames : CallCreateTable(t)
    \/ \E t \in TableNames : CallUpdateTableDefault(t)
    \/ \E t \in TableNames, json \in Jsons(MeanFloats) : CallUpdateMean(json, t)
    \/ \E t \in TableNames, json \in Jsons(MetricFloats) : CallUpdateVariance(json, t)
    \/ \E t \in TableNames, json \in Jsons(MetricRoots) : CallUpdateStdDev(json, t)
    \/ \E t \in TableNames, json \in Jsons(MetricRoots) : CallUpdateSigma(json, t)
    \/ \E t \in TableNames : CallGetLsl(t)
    \/ \E t \in TableNames : CallGetUsl(t)

SpecDb == InitDb /\ [][NextDb]_vars

(* ------------- DatabaseManager on a server that can be away ------------ *)

\* The operators create_table ... get_usl above are the statements of the
\* methods on a live connection.  The operators below put the connection
\* handling of the methods around them.  self.connection is "None" (never
\* connected), "open", or "closed" (a connection object that is_connected()
\* reports False for: closed by close_connection, or lost with the server).
\* A manager state is [connection, tables, log, raised].

Manager == [connection |-> connection, tables |-> tables, log |-> log,
            raised |-> "none"]

\* connect_db: mysql.connector.connect(**self.server); an Error is logged
\* and self.connection keeps what it held
connect_db(m, srv) ==
    IF srv = "up" THEN [m EXCEPT !.connection = "open"]
    ELSE [m EXCEPT !.log = Logged("error", "Error connecting to MySQL", "")]

\* if not self.connection or not self.connection.is_connected():
\*     self.connect_db()
Reconnect(m, srv) == IF m.connection # "open" THEN connect_db(m, srv) ELSE m

\* self.connection.cursor(): AttributeError on None, an OperationalError
\* (a mysql.connector Error) on a connection that is not connected
Cursor(conn) ==
    CASE conn = "None" -> "AttributeError"
      [] conn = "closed" -> "Error"
      [] OTHER -> "none"

\* self.connection.rollback(): on a connection that is not connected the
\* ROLLBACK cannot be sent and the connector raises
Rollback(conn) ==
    CASE conn = "None" -> "AttributeError"
      [] conn = "closed" -> "OperationalError"
      [] OTHER -> "none"

\* check_db: `except Error` logs the failed cursor; AttributeError escapes
check_db(m, srv) ==
    LET c == Reconnect(m, srv)
        cur == Cursor(c.connection)
    IN  CASE cur = "AttributeError" -> [c EXCEPT !.raised = cur]
          [] cur = "Error" ->
                [c EXCEPT !.log = Logged("error", "Error checking database", "")]
          [] OTHER -> c

\* switch_db: check_db, then USE db_name on a new cursor
switch_db(m, srv) ==
    LET c == check_db(Reconnect(m, srv), srv)
    IN  IF c.raised # "none" THEN c
        ELSE IF Cursor(c.connection) = "Error"
             THEN [c EXCEPT !.log = Logged("error", "Error switching database", "")]
             ELSE c

\* A method whose statements give the database and log `done` on a live
\* connection: reconnect, switch_db, cursor, statements; in `except Error`
\* the error is logged and, where rolls_back, self.connection.rollback()
\* is called.
Method(m, srv, error_msg, rolls_back, done) ==
    LET c == switch_db(Reconnect(m, srv), srv)
    IN  IF c.raised # "none" THEN c
        ELSE IF Cursor(c.connection) = "Error"
             THEN [c EXCEPT !.log = Logged("error", error_msg, ""),
                            !.raised = IF rolls_back THEN Rollback(c.connection)
                                       ELSE "none"]
             ELSE [c EXCEPT !.tables = done.tables, !.log = done.log]

\* close_connection: closes a connection that is there and connected
close_connection(m) ==
    IF m.connection = "open"
    THEN [m EXCEPT !.connection = "closed",
                   !.log = Logged("debug", "Database connection closed", "")]
    ELSE m

InitConn ==
    /\ connection = "None"
    /\ server \in {"up", "down"}
    /\ tables = [t \in TableNames |-> NoTable]
    /\ log = NoLog
    /\ NAN_AS_NULL \in BOOLEAN
    /\ TABLE_NAME = "noodles_data"
    /\ VISUALIZE = FALSE
    /\ excel = <<>>
    /\ mode = "default"
    /\ AUTO_RUN = FALSE
    /\ df = <<>>
    /\ LSL = None
    /\ USL = None
    /\ mean_dict = EmptyMap
    /\ variance_dict = EmptyMap
    /\ std_dev_dict = EmptyMap
    /\ sigma_dict = EmptyMap
    /\ called = {}
    /\ stdout = {}
    /\ raised = "none"
    /\ pc = "idle"
    /\ trace = <<>>
    /\ runs = 0
    /\ ops = 0
    /\ main = "start"
    /\ jobs = <<>>
    /\ fired = 0

\* the manager state m is what a call leaves behind
Leaves(m) ==
    /\ connection' = m.connection
    /\ tables' = m.tables
    /\ log' = m.log
    /\ raised' = m.raised
    /\ ops' = ops + 1

ConnConnectDb ==
    /\ ops < MaxOps
    /\ Leaves(connect_db(Manager, server))
    /\ UNCHANGED <<df, LSL, USL, mean_dict, variance_dict, std_dev_dict,
                   sigma_dict, called, stdout, configVars, server, mainVars,
                   pc, trace, runs>>

ConnCloseConnection ==
    /\ ops < MaxOps
    /\ Leaves(close_connection(Manager))
    /\ UNCHANGED <<df, LSL, USL, mean_dict, variance_dict, std_dev_dict,
                   sigma_dict, called, stdout, configVars, server, mainVars,
                   pc, trace, runs>>

ConnCreateTable(t) ==
    /\ ops < MaxOps
    /\ Leaves(Method(Manager, server, "Error creating table", TRUE,
                     create_table(Db, t)))
    /\ UNCHANGED <<df, LSL, USL, mean_dict, variance_dict, std_dev_dict,
                   sigma_dict, called, stdout, configVars, server, mainVars,
                   pc, trace, runs>>

ConnUpdateTableDefault(t) ==
    /\ ops < MaxOps
    /\ Leaves(Method(Manager, server, "Error inserting data", TRUE,
                     update_table_default(Db, t)))
    /\ UNCHANGED <<df, LSL, USL, mean_dict, variance_dict, std_dev_dict,
                   sigma_dict, called, stdout, configVars, server, mainVars,
                   pc, trace, runs>>

\* update_table with the upsert of update_mean for one sku
ConnUpdateTable(t, sku, param) ==
    /\ ops < MaxOps
    /\ Leaves(Method(Manager, server, "Error inserting data, All changes undone",
                     TRUE, update_table(Db, t, t, "mean", sku, param, NAN_AS_NULL)))
    /\ UNCHANGED <<df, LSL, USL, mean_dict, variance_dict, std_dev_dict,
                   sigma_dict, called, stdout, configVars, server, mainVars,
                   pc, trace, runs>>

\* get_lsl: its handler only logs; float(None) raises as on a live connection
ConnGetLsl(t) ==
    /\ ops < MaxOps
    /\ LET r == get_lsl(Db, t)
           m == Method(Manager, server, "Error getting LSL", FALSE,
                       [tables |-> tables, log |-> r.log])
           live == m.raised = "none" /\ m.connection = "open"
       IN  /\ Leaves(IF live THEN [m EXCEPT !.raised = r.raised] ELSE m)
           /\ LSL' = IF live /\ r.raised = "none" THEN r.ret
                     ELSE IF m.raised = "none" THEN None ELSE LSL
    /\ UNCHANGED <<df, USL, mean_dict, variance_dict, std_dev_dict,
                   sigma_dict, called, stdout, configVars, server, mainVars,
                   pc, trace, runs>>

\* the server becomes unreachable: an open connection is lost
ServerGoesDown ==
    /\ server = "up"
    /\ server' = "down"
    /\ connection' = IF connection = "open" THEN "closed" ELSE connection
    /\ UNCHANGED <<statsVars, dbVars, configVars, mainVars, runVars>>

ServerComesUp ==
    /\ server = "down"
    /\ server' = "up"
    /\ UNCHANGED <<statsVars, dbVars, configVars, connection, mainVars, runVars>>

NextConn ==
    \/ ConnConnectDb
    \/ ConnCloseConnection
    \/ \E t \in TableNames : ConnCreateTable(t)
    \/ \E t \in TableNames : ConnUpdateTableDefault(t)
    \/ \E t \in TableNames, sku \in SKUs, param \in MeanFloats :
          ConnUpdateTable(t, sku, param)
    \/ \E t \in TableNames : ConnGetLsl(t)
    \/ ServerGoesDown
    \/ ServerComesUp

SpecConn == InitConn /\ [][NextConn]_vars

(* --------------------------- app/manual_run.py ------------------------- *)

\* the table get_lsl and get_usl are asked for on lines 48 and 49
LimitsTable == "noodles_data"

\* do_analysis with each metric persisted as soon as it is computed and a
\* chart drawn whatever VISUALIZE says
SuccessorEager(stmt, visualize) ==
    CASE stmt = "read_excel" -> "create_table"
      [] stmt = "create_table" -> "update_table_default"
      [] stmt = "update_table_default" -> "get_lsl"
      [] stmt = "get_lsl" -> "get_usl"
      [] stmt = "get_usl" -> "get_mean"
      [] stmt = "get_mean" -> "update_mean"
      [] stmt = "update_mean" -> "get_std_dev"
      [] stmt = "get_std_dev" -> "update_std_dev"
      [] stmt = "update_std_dev" -> "get_variance"
      [] stmt = "get_variance" -> "update_variance"
      [] stmt = "update_variance" -> "get_sigma"
      [] stmt = "get_sigma" -> "update_sigma"
      [] stmt = "update_sigma" -> "visualize"
      [] stmt = "visualize" -> "return"
      [] stmt = "return" -> "done"

\* The statement that follows stmt in do_analysis.
Successor(stmt, visualize) ==
    CASE stmt = "read_excel" -> "create_table"
      [] stmt = "create_table" -> "update_table_default"
      [] stmt = "update_table_default" -> "get_lsl"
      [] stmt = "get_lsl" -> "get_usl"
      [] stmt = "get_usl" -> "get_mean"
      [] stmt = "get_mean" -> "get_std_dev"
      [] stmt = "get_std_dev" -> "get_variance"
      [] stmt = "get_variance" -> "get_sigma"
      [] stmt = "get_sigma" -> "update_mean"
      [] stmt = "update_mean" -> "update_variance"
      [] stmt = "update_variance" -> "update_std_dev"
      [] stmt = "update_std_dev" -> "update_sigma"
      [] stmt = "update_sigma" -> IF visualize THEN "visualize" ELSE "return"
      [] stmt = "visualize" -> "return"
      [] stmt = "return" -> "done"

\* stmt has run to its end
Advance(stmt) ==
    /\ pc' = Successor(stmt, VISUALIZE)
    /\ trace' = Append(trace, stmt)

\* stmt raised: the exception leaves do_analysis
Raise(stmt, exception) ==
    /\ pc' = "raised"
    /\ raised' = exception
    /\ trace' = Append(trace, stmt)

InitRun ==
    /\ excel \in Frames
    /\ TABLE_NAME \in TableNames
    /\ VISUALIZE \in BOOLEAN
    /\ NAN_AS_NULL \in BOOLEAN
    /\ \E before \in BOOLEAN :
          LET empty == [tables |-> [t \in TableNames |-> NoTable], log |-> NoLog]
          IN  tables = IF before
                       THEN update_table_default(create_table(empty, LimitsTable),
                                                 LimitsTable).tables
                       ELSE empty.tables
    /\ log = NoLog
    /\ df = <<>>
    /\ LSL = None
    /\ USL = None
    /\ mean_dict = EmptyMap
    /\ variance_dict = EmptyMap
    /\ std_dev_dict = EmptyMap
    /\ sigma_dict = EmptyMap
    /\ called = {}
    /\ stdout = {}
    /\ raised = "none"
    /\ pc = "idle"
    /\ trace = <<>>
    /\ runs = 0
    /\ ops = 0
    /\ mode = "default"
    /\ AUTO_RUN = FALSE
    /\ connection = "open"
    /\ server = "up"
    /\ main = "start"
    /\ jobs = <<>>
    /\ fired = 0

\* do_analysis() is entered: its locals are fresh
EnterDoAnalysis ==
    /\ pc \in {"idle", "done", "raised"}
    /\ runs < MaxRuns
    /\ runs' = runs + 1
    /\ pc' = "read_excel"
    /\ trace' = <<>>
    /\ df' = <<>>
    /\ LSL' = None
    /\ USL' = None
    /\ mean_dict' = EmptyMap
    /\ variance_dict' = EmptyMap
    /\ std_dev_dict' = EmptyMap
    /\ sigma_dict' = EmptyMap
    /\ called' = {}
    /\ stdout' = {}
    /\ raised' = "none"

\* do_analysis() is called: by run_analysis, in a new process
StartRun ==
    /\ EnterDoAnalysis
    /\ UNCHANGED <<dbVars, configVars, connVars, mainVars, ops>>

\* data = pd.read_excel(file_name); df = pd.DataFrame(data)
DoReadExcel ==
    /\ pc = "read_excel"
    /\ df' = excel
    /\ Advance("read_excel")
    /\ UNCHANGED <<LSL, USL, mean_dict, variance_dict, std_dev_dict, sigma_dict,
                   called, stdout, raised, dbVars, configVars, connVars, mainVars, runs, ops>>

DoCreateTable ==
    /\ pc = "create_table"
    /\ LET r == create_table(Db, TABLE_NAME) IN tables' = r.tables /\ log' = r.log
    /\ Advance("create_table")
    /\ UNCHANGED <<statsVars, configVars, connVars, mainVars, runs, ops>>

DoUpdateTableDefault ==
    /\ pc = "update_table_default"
    /\ LET r == update_table_default(Db, TABLE_NAME) IN tables' = r.tables /\ log' = r.log
    /\ Advance("update_table_default")
    /\ UNCHANGED <<statsVars, configVars, connVars, mainVars, runs, ops>>

DoGetLsl ==
    /\ pc = "get_lsl"
    /\ LET r == get_lsl(Db, LimitsTable) IN
          /\ log' = r.log
          /\ IF r.raised # "none"
             THEN Raise("get_lsl", r.raised) /\ UNCHANGED LSL
             ELSE LSL' = r.ret /\ Advance("get_lsl") /\ UNCHANGED raised
    /\ UNCHANGED <<df, USL, mean_dict, variance_dict, std_dev_dict, sigma_dict,
                   called, stdout, tables, configVars, connVars, mainVars, runs, ops>>

DoGetUsl ==
    /\ pc = "get_usl"
    /\ LET r == get_usl(Db, LimitsTable) IN
          /\ log' = r.log
          /\ IF r.raised # "none"
             THEN Raise("get_usl", r.raised) /\ UNCHANGED USL
             ELSE USL' = r.ret /\ Advance("get_usl") /\ UNCHANGED raised
    /\ UNCHANGED <<df, LSL, mean_dict, variance_dict, std_dev_dict, sigma_dict,
                   called, stdout, tables, configVars, connVars, mainVars, runs, ops>>

DoGetMean ==
    /\ pc = "get_mean"
    /\ mean_dict' = get_mean(df)
    /\ called' = called \cup {"get_mean"}
    /\ Advance("get_mean")
    /\ UNCHANGED <<df, LSL, USL, variance_dict, std_dev_dict, sigma_dict,
                   stdout, raised, dbVars, configVars, connVars, mainVars, runs, ops>>

DoGetStdDev ==
    /\ pc = "get_std_dev"
    /\ std_dev_dict' = get_std_dev(df)
    /\ called' = called \cup {"get_std_dev"}
    /\ Advance("get_std_dev")
    /\ UNCHANGED <<df, LSL, USL, mean_dict, variance_dict, sigma_dict,
                   stdout, raised, dbVars, configVars, connVars, mainVars, runs, ops>>

DoGetVariance ==
    /\ pc = "get_variance"
    /\ variance_dict' = get_variance(df)
    /\ called' = called \cup {"get_variance"}
    /\ Advance("get_variance")
    /\ UNCHANGED <<df, LSL, USL, mean_dict, std_dev_dict, sigma_dict,
                   stdout, raised, dbVars, configVars, connVars, mainVars, runs, ops>>

DoGetSigma ==
    /\ pc = "get_sigma"
    /\ LET r == get_sigma(df, LSL, USL) IN
          /\ df' = r.args.df
          /\ LSL' = r.args.LSL
          /\ USL' = r.args.USL
          /\ IF r.raised # "none"
             THEN /\ Raise("get_sigma", r.raised)
                  /\ UNCHANGED <<sigma_dict, stdout, called>>
             ELSE /\ sigma_dict' = r.ret
                  /\ stdout' = stdout \cup r.printed
                  /\ called' = called \cup {"get_sigma"}
                  /\ Advance("get_sigma")
                  /\ UNCHANGED raised
    /\ UNCHANGED <<mean_dict, variance_dict, std_dev_dict,
                   dbVars, configVars, connVars, mainVars, runs, ops>>

DoUpdateMean ==
    /\ pc = "update_mean"
    /\ LET r == update_mean(Db, mean_dict, TABLE_NAME, NAN_AS_NULL) IN tables' = r.tables /\ log' = r.log
    /\ Advance("update_mean")
    /\ UNCHANGED <<statsVars, configVars, connVars, mainVars, runs, ops>>

DoUpdateVariance ==
    /\ pc = "update_variance"
    /\ LET r == update_variance(Db, variance_dict, TABLE_NAME, NAN_AS_NULL) IN tables' = r.tables /\ log' = r.log
    /\ Advance("update_variance")
    /\ UNCHANGED <<statsVars, configVars, connVars, mainVars, runs, ops>>

DoUpdateStdDev ==
    /\ pc = "update_std_dev"
    /\ LET r == update_std_dev(Db, std_dev_dict, TABLE_NAME, NAN_AS_NULL) IN tables' = r.tables /\ log' = r.log
    /\ Advance("update_std_dev")
    /\ UNCHANGED <<statsVars, configVars, connVars, mainVars, runs, ops>>

DoUpdateSigma ==
    /\ pc = "update_sigma"
    /\ LET r == update_sigma(Db, sigma_dict, TABLE_NAME, NAN_AS_NULL) IN tables' = r.tables /\ log' = r.log
    /\ Advance("update_sigma")
    /\ UNCHANGED <<statsVars, configVars, connVars, mainVars, runs, ops>>

\* if VISUALIZE: visualize() -- reads the table and draws the chart
DoVisualize ==
    /\ pc = "visualize"
    /\ Advance("visualize")
    /\ UNCHANGED <<statsVars, dbVars, configVars, connVars, mainVars, runs, ops>>

\* return logger.info(...)
DoReturn ==
    /\ pc = "return"
    /\ Advance("return")
    /\ log' = Logged("info", "Analysis complete!", "")
    /\ UNCHANGED <<statsVars, tables, configVars, connVars, mainVars, runs, ops>>

NextRun ==
    \/ StartRun
    \/ DoReadExcel
    \/ DoCreateTable
    \/ DoUpdateTableDefault
    \/ DoGetLsl
    \/ DoGetUsl
    \/ DoGetMean
    \/ DoGetStdDev
    \/ DoGetVariance
    \/ DoGetSigma
    \/ DoUpdateMean
    \/ DoUpdateVariance
    \/ DoUpdateStdDev
    \/ DoUpdateSigma
    \/ DoVisualize
    \/ DoReturn

SpecRun == InitRun /\ [][NextRun]_vars

(* ------------------ app/main.py and app/automation/auto.py ------------- *)

\* the mode strings handed to run_analysis
Modes == {"default", "Default", "auto", "AUTO", "manual", "Manual", "weekly"}

\* str.lower() on the mode strings
Lower(m) ==
    CASE m = "Default" -> "default"
      [] m = "AUTO" -> "auto"
      [] m = "Manual" -> "manual"
      [] OTHER -> m

\* the datasets of the runs started from main.py
MainFrames ==
    {<<>>,
     <<[Sku |-> "Ochk 70g", Value |-> 65]>>,
     <<[Sku |-> "Ochk 70g", Value |-> 63], [Sku |-> "Ochk 70g", Value |-> 67]>>}

\* the value of the call expression manual_run.do_analysis(): what
\* logger.info returns
DoAnalysisResult == "None"

\* callable(v): of the values handed to Job.do, only the function object is
Callable(v) == v = "do_analysis"

\* the job schedule.every().monday.at("08:00").do(job_func) registers
WeeklyJob(job_func) ==
    [interval |-> 1, unit |-> "weeks", start_day |-> "monday",
     at_time |-> "08:00", job_func |-> job_func]

\* Job.do(job_func): functools.partial(job_func) raises TypeError for a
\* job_func that is not callable, before the job joins the scheduler's list
JobDo(js, job_func) ==
    IF Callable(job_func)
    THEN [jobs |-> Append(js, WeeklyJob(job_func)), raised |-> "none"]
    ELSE [jobs |-> js, raised |-> "TypeError"]

InitMain ==
    /\ mode \in Modes
    /\ AUTO_RUN \in BOOLEAN
    /\ excel \in MainFrames
    /\ TABLE_NAME \in TableNames
    /\ VISUALIZE \in BOOLEAN
    /\ NAN_AS_NULL \in BOOLEAN
    /\ \E before \in BOOLEAN :
          LET empty == [tables |-> [t \in TableNames |-> NoTable], log |-> NoLog]
          IN  tables = IF before
                       THEN update_table_default(create_table(empty, LimitsTable),
                                                 LimitsTable).tables
                       ELSE empty.tables
    /\ log = NoLog
    /\ df = <<>>
    /\ LSL = None
    /\ USL = None
    /\ mean_dict = EmptyMap
    /\ variance_dict = EmptyMap
    /\ std_dev_dict = EmptyMap
    /\ sigma_dict = EmptyMap
    /\ called = {}
    /\ stdout = {}
    /\ raised = "none"
    /\ pc = "idle"
    /\ trace = <<>>
    /\ runs = 0
    /\ ops = 0
    /\ connection = "open"
    /\ server = "up"
    /\ main = "start"
    /\ jobs = <<>>
    /\ fired = 0

\* run_analysis(mode), first branch: do_analysis()
RunAnalysisDefault ==
    /\ main = "start"
    /\ Lower(mode) = "default"
    /\ EnterDoAnalysis
    /\ main' = "default"
    /\ UNCHANGED <<dbVars, configVars, connVars, jobs, fired, ops>>

\* second branch: auto.auto_run() is called
RunAnalysisAuto ==
    /\ main = "start"
    /\ Lower(mode) # "default"
    /\ Lower(mode) = "auto"
    /\ main' = "auto_run"
    /\ UNCHANGED <<statsVars, dbVars, configVars, connVars, jobs, fired, runVars>>

\* third branch: mode == 'manual', compared as given
RunAnalysisManual ==
    /\ main = "start"
    /\ Lower(mode) \notin {"default", "auto"}
    /\ mode = "manual"
    /\ log' = Logged("info", "Set to run analysis manually on user demand", "")
    /\ main' = "exit"
    /\ UNCHANGED <<statsVars, tables, configVars, connVars, jobs, fired, runVars>>

\* else branch: logger.debug (below the logger's level), then the usage help
RunAnalysisUnknown ==
    /\ main = "start"
    /\ Lower(mode) \notin {"default", "auto"}
    /\ mode # "manual"
    /\ log' = Logged("info", "Usage: python main.py [default|auto|manual]", "")
    /\ main' = "exit"
    /\ UNCHANGED <<statsVars, tables, configVars, connVars, jobs, fired, runVars>>

\* do_analysis() returned to run_analysis, which returns
RunAnalysisReturns ==
    /\ main = "default"
    /\ pc = "done"
    /\ main' = "exit"
    /\ UNCHANGED <<statsVars, dbVars, configVars, connVars, jobs, fired, runVars>>

\* auto_run with AUTO_RUN set: the argument of .do(...) is evaluated first,
\* which calls do_analysis
AutoRunEvaluatesArgument ==
    /\ main = "auto_run"
    /\ AUTO_RUN
    /\ EnterDoAnalysis
    /\ main' = "do_arg"
    /\ UNCHANGED <<dbVars, configVars, connVars, jobs, fired, ops>>

\* schedule.every().monday.at("08:00").do(<the value do_analysis returned>);
\* when do returns: logger.info("Scheduler started...") and the polling loop
AutoRunSchedules ==
    /\ main = "do_arg"
    /\ pc = "done"
    /\ LET r == JobDo(jobs, DoAnalysisResult) IN
          /\ jobs' = r.jobs
          /\ raised' = r.raised
          /\ IF r.raised = "none"
             THEN /\ main' = "poll"
                  /\ log' = Logged("info", "Scheduler started. Press Ctrl+C to exit.", "")
             ELSE /\ main' = "exit"
                  /\ UNCHANGED log
    /\ UNCHANGED <<df, LSL, USL, mean_dict, variance_dict, std_dev_dict,
                   sigma_dict, called, stdout, tables, configVars, connVars,
                   fired, runVars>>

\* auto_run with AUTO_RUN unset: pass; run_analysis logs and returns
AutoRunDisabled ==
    /\ main = "auto_run"
    /\ ~AUTO_RUN
    /\ log' = Logged("info",
                     "Set to run analysis automatically on a weekly schedule", "")
    /\ main' = "exit"
    /\ UNCHANGED <<statsVars, tables, configVars, connVars, jobs, fired, runVars>>

\* an exception raised in do_analysis leaves run_analysis and ends the process
ExceptionPropagates ==
    /\ main \in {"default", "do_arg"}
    /\ pc = "raised"
    /\ main' = "exit"
    /\ UNCHANGED <<statsVars, dbVars, configVars, connVars, jobs, fired, runVars>>

\* the clock passes a Monday 08:00, the instant of the weekly trigger
MondayEight ==
    /\ fired < MaxFirings
    /\ fired' = fired + 1
    /\ UNCHANGED <<statsVars, dbVars, configVars, connVars, main, jobs, runVars>>

\* the statements of do_analysis
DoAnalysisStep ==
    \/ DoReadExcel
    \/ DoCreateTable
    \/ DoUpdateTableDefault
    \/ DoGetLsl
    \/ DoGetUsl
    \/ DoGetMean
    \/ DoGetStdDev
    \/ DoGetVariance
    \/ DoGetSigma
    \/ DoUpdateMean
    \/ DoUpdateVariance
    \/ DoUpdateStdDev
    \/ DoUpdateSigma
    \/ DoVisualize
    \/ DoReturn

NextMain ==
    \/ RunAnalysisDefault
    \/ RunAnalysisAuto
    \/ RunAnalysisManual
    \/ RunAnalysisUnknown
    \/ RunAnalysisReturns
    \/ AutoRunEvaluatesArgument
    \/ AutoRunSchedules
    \/ AutoRunDisabled
    \/ ExceptionPropagates
    \/ MondayEight
    \/ DoAnalysisStep

SpecMain == InitMain /\ [][NextMain]_vars

(* ------------------- properties of the statistics engine --------------- *)

\* the rows of df whose Sku is sku, as a set of row indices
RowsOf(sku) == {i \in DOMAIN df : df[i].Sku = sku}

SkusOfDf == {df[i].Sku : i \in DOMAIN df}

ValueSum(sku) == SumOver(RowsOf(sku), [i \in DOMAIN df |-> df[i].Value])

ValueSqSum(sku) ==
    SumOver(RowsOf(sku), [i \in DOMAIN df |-> df[i].Value * df[i].Value])

NumRows(sku) == Cardinality(RowsOf(sku))

\* the two margins of sku against the limits handed to get_sigma
UpperMargin(sku) == RSub(USL.map[sku], get_mean(df)[sku])

LowerMargin(sku) == RSub(get_mean(df)[sku], LSL.map[sku])

HasBothBounds(sku) == sku \in DOMAIN LSL.map /\ sku \in DOMAIN USL.map

\* C1: every SKU in get_sigma's result has the value
\* min(USL - mean, mean - LSL) / std: multiplied back by the SKU's sample
\* standard deviation it gives the lower margin when the lower margin is the
\* smaller one and the upper margin otherwise (NaN when std is NaN).
C1_SigmaIsSmallerMarginOverStd ==
    "get_sigma" \in called =>
        \A sku \in DOMAIN sigma_dict :
            LET std == get_std_dev(df)[sku]
                smaller == IF RLess(LowerMargin(sku), UpperMargin(sku))
                           THEN LowerMargin(sku) ELSE UpperMargin(sku)
            IN  IF IsNaN(std) THEN IsNaN(sigma_dict[sku])
                ELSE /\ ~IsNaN(sigma_dict[sku])
                     /\ SurdMul(sigma_dict[sku], std) = SurdOfRat(smaller)

\* C1 witness: a sigma level was computed for a SKU whose lower margin is
\* strictly smaller than its upper margin.
C1_Witness ==
    /\ "get_sigma" \in called
    /\ \E sku \in DOMAIN sigma_dict :
          /\ ~IsNaN(sigma_dict[sku])
          /\ RLess(LowerMargin(sku), UpperMargin(sku))

\* C2: the keys of get_sigma's result are among the keys of the mean, LSL,
\* USL and std-dev maps, none of them has a standard deviation of 0, and a
\* SKU of the dataset that LSL or USL lacks is left out with no exception
\* and no warning.
C2_SigmaKeys ==
    "get_sigma" \in called =>
        /\ raised = "none"
        /\ DOMAIN sigma_dict \subseteq
              (DOMAIN get_mean(df) \cap DOMAIN LSL.map \cap DOMAIN USL.map
                  \cap DOMAIN get_std_dev(df))
        /\ \A sku \in DOMAIN sigma_dict : ~SurdIsZero(get_std_dev(df)[sku])
        /\ \A sku \in SkusOfDf :
              ~HasBothBounds(sku) => sku \notin DOMAIN sigma_dict /\ sku \notin stdout

\* C2 witness: get_sigma returned for a dataset with a SKU that has no
\* lower or no upper limit.
C2_Witness ==
    /\ "get_sigma" \in called
    /\ \E sku \in SkusOfDf : ~HasBothBounds(sku)
    /\ sigma_dict # EmptyMap

\* a SKU with at least two samples, all equal: its sample std-dev is 0
ZeroVariance(sku) ==
    /\ NumRows(sku) >= 2
    /\ \A i, j \in RowsOf(sku) : df[i].Value = df[j].Value

\* C3 as stated: a zero-variance SKU is absent from the result and named by
\* a warning whatever the LSL/USL mappings are.
C3_Original ==
    "get_sigma" \in called =>
        \A sku \in SkusOfDf :
            ZeroVariance(sku) =>
                /\ raised = "none"
                /\ sku \notin DOMAIN sigma_dict
                /\ sku \in stdout

\* C3 amended: get_sigma returns normally and a zero-variance SKU is absent
\* from the result; the warning naming it is printed exactly when both LSL
\* and USL contain the SKU.
C3_ZeroVarianceSkip ==
    "get_sigma" \in called =>
        \A sku \in SkusOfDf :
            ZeroVariance(sku) =>
                /\ raised = "none"
                /\ sku \notin DOMAIN sigma_dict
                /\ sku \in stdout <=> HasBothBounds(sku)

\* C3 witness: a zero-variance SKU with both limits was warned about.
C3_Witness ==
    /\ "get_sigma" \in called
    /\ \E sku \in SkusOfDf :
          ZeroVariance(sku) /\ HasBothBounds(sku) /\ sku \in stdout

\* C4: a SKU with both limits whose statistic is undefined (one sample, or
\* zero variance) is left out of the sigma map or carries NaN, a warning
\* names it, and nothing is raised.
C4_UndefinedStatisticDiagnosed ==
    "get_sigma" \in called =>
        \A sku \in SkusOfDf :
            (HasBothBounds(sku) /\ (NumRows(sku) = 1 \/ ZeroVariance(sku))) =>
                /\ raised = "none"
                /\ sku \in DOMAIN sigma_dict => IsNaN(sigma_dict[sku])
                /\ sku \in stdout

\* C5: get_mean's keys are exactly the distinct SKUs of the dataset and each
\* value is the sum of the SKU's values over the number of its rows.
C5_MeanIsSumOverCount ==
    "get_mean" \in called =>
        /\ DOMAIN mean_dict = SkusOfDf
        /\ \A sku \in DOMAIN mean_dict :
              /\ ~IsNaN(mean_dict[sku])
              /\ mean_dict[sku].n * NumRows(sku) = ValueSum(sku) * mean_dict[sku].d

\* C5 witness: a mean over two rows of one SKU in a dataset that also holds
\* another SKU.
C5_Witness ==
    /\ "get_mean" \in called
    /\ Cardinality(DOMAIN mean_dict) = 2
    /\ \E sku \in DOMAIN mean_dict : NumRows(sku) = 2 /\ mean_dict[sku].d = 1

\* C6: for a SKU with n >= 2 rows get_variance is the sum of squared
\* deviations over n - 1:  var * n * (n - 1) = n * sum(x^2) - sum(x)^2.
C6_SampleVariance ==
    "get_variance" \in called =>
        \A sku \in SkusOfDf :
            NumRows(sku) >= 2 =>
                LET n == NumRows(sku)
                    var == variance_dict[sku]
                IN  /\ sku \in DOMAIN variance_dict
                    /\ ~IsNaN(var)
                    /\ var.n * n * (n - 1) =
                          (n * ValueSqSum(sku) - ValueSum(sku) * ValueSum(sku)) * var.d

\* C6 witness: a non-zero variance over three rows.
C6_Witness ==
    /\ "get_variance" \in called
    /\ \E sku \in DOMAIN variance_dict :
          NumRows(sku) = 3 /\ ~IsNaN(variance_dict[sku]) /\ variance_dict[sku].n > 0

\* C7: variance and std-dev have every key of the mean; with two or more
\* samples the std-dev squared is the variance; with one sample both are NaN.
C7_VarianceStdDevConsistent ==
    {"get_mean", "get_variance", "get_std_dev"} \subseteq called =>
        /\ DOMAIN mean_dict \subseteq DOMAIN variance_dict
        /\ DOMAIN mean_dict \subseteq DOMAIN std_dev_dict
        /\ DOMAIN variance_dict = DOMAIN std_dev_dict
        /\ \A sku \in DOMAIN variance_dict :
              IF NumRows(sku) >= 2
              THEN /\ ~IsNaN(std_dev_dict[sku])
                   /\ std_dev_dict[sku].sg >= 0
                   /\ Square(std_dev_dict[sku]) = variance_dict[sku]
              ELSE IsNaN(variance_dict[sku]) /\ IsNaN(std_dev_dict[sku])

\* C7 witness: one SKU with a single sample and one with a non-zero std-dev.
C7_Witness ==
    /\ {"get_mean", "get_variance", "get_std_dev"} \subseteq called
    /\ \E s, t \in DOMAIN std_dev_dict :
          /\ NumRows(s) = 1
          /\ NumRows(t) >= 2 /\ std_dev_dict[t].sg = 1

\* C8: on the empty dataset each operation that has returned gave the empty
\* map and nothing was raised.
C8_EmptyDataset ==
    df = <<>> =>
        /\ raised = "none"
        /\ "get_mean" \in called => mean_dict = EmptyMap
        /\ "get_variance" \in called => variance_dict = EmptyMap
        /\ "get_std_dev" \in called => std_dev_dict = EmptyMap
        /\ "get_sigma" \in called => sigma_dict = EmptyMap /\ stdout = {}

\* C8 witness: all four operations returned on the empty dataset.
C8_Witness ==
    /\ df = <<>>
    /\ called = {"get_mean", "get_variance", "get_std_dev", "get_sigma"}

\* C13: a call of get_sigma leaves the dataset, the LSL mapping and the USL
\* mapping as they were, whichever path each SKU takes (entry, missing-bound
\* skip, zero-std skip).
C13_GetSigmaLeavesInputs ==
    [][CallGetSigma => (df' = df /\ LSL' = LSL /\ USL' = USL)]_vars

\* C13 witness: get_sigma returned with an entry for one SKU after leaving
\* out another SKU of the dataset.
C13_Witness ==
    /\ "get_sigma" \in called
    /\ \E s, t \in SkusOfDf : s \in DOMAIN sigma_dict /\ t \notin DOMAIN sigma_dict

(* -------------------- properties of the persistence -------------------- *)

\* the number of rows of table t whose sku is sku
NumRowsOfSku(tb, t, sku) ==
    SumOver(RowsWithSku(tb[t].rows, sku), tb[t].rows)

\* the cell that holds the float x: NULL stands for NaN
CellOf(x) == IF IsNaN(x) THEN Null ELSE Dec(ToDecimal(x))

\* What an upsert of json into column col of the existing table t does
\* between tables and tables': a SKU of json without a row gets one new row
\* that holds the value, a SKU with a row has col set to the value and its
\* other columns kept, and the rows of the other SKUs are the same.
UpsertEffect(col, json, t) ==
    tables[t].exists =>
        LET old == tables[t].rows
            new == tables'[t].rows
        IN  /\ \A sku \in DOMAIN json :
                  IF RowsWithSku(old, sku) = {}
                  THEN RowsWithSku(new, sku) =
                           {[NewRow(sku) EXCEPT ![col] = CellOf(json[sku])]}
                  ELSE RowsWithSku(new, sku) =
                           {[r EXCEPT ![col] = CellOf(json[sku])] :
                               r \in RowsWithSku(old, sku)}
            /\ \A r \in BagToSet(old) \cup BagToSet(new) :
                  r.sku \notin DOMAIN json =>
                      CopiesIn(r, old) = CopiesIn(r, new)

\* every table holds at most one row per sku
OneRowPerSku(tb) ==
    \A t \in TableNames :
        \A r \in BagToSet(tb[t].rows) : NumRowsOfSku(tb, t, r.sku) <= 1

\* C9: each of the four update routines is an upsert keyed by sku on its
\* metric column that leaves the other columns and the other rows alone, and
\* every table keeps at most one row per sku.
C9_UpsertKeyedBySku ==
    [][/\ \A t \in TableNames, json \in Jsons(MeanFloats) :
             CallUpdateMean(json, t) => UpsertEffect("mean", json, t)
       /\ \A t \in TableNames, json \in Jsons(MetricFloats) :
             CallUpdateVariance(json, t) => UpsertEffect("variance", json, t)
       /\ \A t \in TableNames, json \in Jsons(MetricRoots) :
             /\ CallUpdateStdDev(json, t) => UpsertEffect("std_dev", json, t)
             /\ CallUpdateSigma(json, t) => UpsertEffect("sigma_level", json, t)
       /\ OneRowPerSku(tables')]_vars

\* whether the statement that stores the float x succeeds: a NaN is stored
\* (as NULL) only by a connector that sends it as NULL
Storable(x) == NAN_AS_NULL \/ ~IsNaN(x)

\* What a write of json into column col of table t makes of the tables old:
\* in the tables new no table but t differs, a missing t stays missing, and
\* in an existing t each SKU of json whose value can be stored has its one
\* row carry the value in col (a new row when it had none) while the rows
\* of every other SKU are as they were.
WritesInto(col, json, t, old, new) ==
    /\ \A u \in TableNames \ {t} : new[u] = old[u]
    /\ new[t].exists = old[t].exists
    /\ IF ~old[t].exists THEN new[t].rows = old[t].rows
       ELSE \A sku \in SKUs :
               IF sku \in DOMAIN json /\ Storable(json[sku])
               THEN /\ NumRowsOfSku(new, t, sku) = 1
                    /\ RowsWithSku(new[t].rows, sku) =
                          IF RowsWithSku(old[t].rows, sku) = {}
                          THEN {[NewRow(sku) EXCEPT ![col] = CellOf(json[sku])]}
                          ELSE {[r EXCEPT ![col] = CellOf(json[sku])] :
                                   r \in RowsWithSku(old[t].rows, sku)}
               ELSE /\ RowsWithSku(new[t].rows, sku) = RowsWithSku(old[t].rows, sku)
                    /\ NumRowsOfSku(new, t, sku) = NumRowsOfSku(old, t, sku)

\* C14: on every database the persistence routines can produce,
\* update_sigma(sigma_json, table) writes the sigma_level column of the
\* table named by its table argument, whatever TABLE_NAME is, exactly as
\* update_mean, update_variance and update_std_dev write their columns of
\* their table argument; no other table changes.
C14_UpdateSigmaWritesItsTable ==
    /\ \A t \in TableNames, json \in Jsons(MetricRoots) :
          /\ WritesInto("sigma_level", json, t, tables,
                        update_sigma(Db, json, t, NAN_AS_NULL).tables)
          /\ WritesInto("std_dev", json, t, tables,
                        update_std_dev(Db, json, t, NAN_AS_NULL).tables)
    /\ \A t \in TableNames, json \in Jsons(MetricFloats) :
          WritesInto("variance", json, t, tables,
                     update_variance(Db, json, t, NAN_AS_NULL).tables)
    /\ \A t \in TableNames, json \in Jsons(MeanFloats) :
          WritesInto("mean", json, t, tables,
                     update_mean(Db, json, t, NAN_AS_NULL).tables)

\* C14 witness: a table other than TABLE_NAME holds a sigma level.
C14_Witness ==
    \E t \in TableNames \ {TABLE_NAME} :
        \E r \in BagToSet(tables[t].rows) : ~r.sigma_level.null

\* the SKUs of the rows of table t
SkusOfTable(tb, t) == {r.sku : r \in BagToSet(tb[t].rows)}

\* C15: on every existing table that create_table, update_table_default and
\* the four upsert routines can produce, get_lsl and get_usl return, without
\* raising, a mapping whose keys are the SKUs of the table's rows.
C15_LimitsReadable ==
    [][\A t \in TableNames :
          /\ (CallGetLsl(t) /\ tables[t].exists) =>
                /\ raised' = "none"
                /\ ~LSL'.none
                /\ DOMAIN LSL'.map = SkusOfTable(tables, t)
          /\ (CallGetUsl(t) /\ tables[t].exists) =>
                /\ raised' = "none"
                /\ ~USL'.none
                /\ DOMAIN USL'.map = SkusOfTable(tables, t)]_vars

(* ------------------ properties of the connection handling ------------- *)

\* a call of one of the DatabaseManager methods that use the connection
ConnMethodCall ==
    \/ \E t \in TableNames : ConnCreateTable(t)
    \/ \E t \in TableNames : ConnUpdateTableDefault(t)
    \/ \E t \in TableNames, sku \in SKUs, param \in MeanFloats :
          ConnUpdateTable(t, sku, param)
    \/ \E t \in TableNames : ConnGetLsl(t)

\* the call met a connection it could not use: absent or not connected,
\* with the server away
NoConnection == connection # "open" /\ server = "down"

\* C16: in every connection state a DatabaseManager method reconnects when
\* the server can be reached, and when it cannot, logs the failure and
\* returns without raising and without touching the tables; connect_db and
\* close_connection never raise, and close_connection leaves no open
\* connection.
C16_AnyConnectionState ==
    [][/\ ConnMethodCall =>
             /\ server = "up" => connection' = "open"
             /\ NoConnection =>
                   /\ raised' = "none"
                   /\ log'.level = "error"
                   /\ tables' = tables
       /\ ConnConnectDb => raised' = "none"
       /\ ConnCloseConnection => raised' = "none" /\ connection' # "open"]_vars

(* --------------------- properties of do_analysis ----------------------- *)

\* the position of stmt in the current run's trace, 0 when it has not run
Position(stmt) ==
    IF \E i \in DOMAIN trace : trace[i] = stmt
    THEN CHOOSE i \in DOMAIN trace : trace[i] = stmt
    ELSE 0

Ran(stmt) == Position(stmt) > 0

\* a ran, and before b
RanBefore(a, b) == Ran(a) /\ Position(a) < Position(b)

LoadStmts == {"read_excel", "get_lsl", "get_usl"}

ComputeStmts == {"get_mean", "get_std_dev", "get_variance", "get_sigma"}

PersistStmts == {"update_mean", "update_variance", "update_std_dev", "update_sigma"}

\* C10: in every run of do_analysis no statement runs twice, the input and
\* both limit maps are read before any metric is computed, all four metrics
\* are computed before the first upsert, all four upserts are made before
\* visualize, and visualize runs only with VISUALIZE set.
C10_LoadComputePersistVisualize ==
    /\ \A i, j \in DOMAIN trace : trace[i] = trace[j] => i = j
    /\ \A c \in ComputeStmts : Ran(c) => \A l \in LoadStmts : RanBefore(l, c)
    /\ \A u \in PersistStmts : Ran(u) => \A c \in ComputeStmts : RanBefore(c, u)
    /\ Ran("visualize") =>
          /\ VISUALIZE
          /\ \A u \in PersistStmts : RanBefore(u, "visualize")

\* C10 witness: a run that computed metrics for a non-empty dataset, made
\* its upserts, called visualize and returned.
C10_Witness ==
    /\ pc = "done"
    /\ df # <<>>
    /\ Ran("visualize")
    /\ \A u \in PersistStmts : Ran(u)

(* --------------- properties of run_analysis and auto_run --------------- *)

\* the weekly job that runs the pipeline is on the scheduler's list
Armed == \E i \in DOMAIN jobs : jobs[i] = WeeklyJob("do_analysis")

\* run_analysis has dispatched and finished, or sits in the polling loop
Dispatched == main \in {"exit", "poll"}

\* C11: once run_analysis has dispatched, mode 'default' has run the
\* pipeline exactly once and armed nothing; mode 'auto' (with AUTO_RUN set)
\* has the weekly job armed; mode 'manual' has run no analysis, armed
\* nothing and logged its message; every other mode has run no analysis,
\* armed nothing and logged the usage help.  'default' and 'auto' are taken
\* in any letter case, as run_analysis compares them.
C11_ModeDispatch ==
    Dispatched =>
        CASE Lower(mode) = "default" -> runs = 1 /\ jobs = <<>>
          [] Lower(mode) = "auto" -> AUTO_RUN => Armed
          [] mode = "manual" ->
                /\ runs = 0
                /\ jobs = <<>>
                /\ log.msg = "Set to run analysis manually on user demand"
          [] OTHER ->
                /\ runs = 0
                /\ jobs = <<>>
                /\ log.msg = "Usage: python main.py [default|auto|manual]"

\* C12: in auto mode with AUTO_RUN set the pipeline never runs without a
\* firing of the weekly trigger (there are never more runs than firings),
\* and once auto_run is past its registration the weekly job is armed and
\* nothing was raised.
C12_OneRunPerFiring ==
    (Lower(mode) = "auto" /\ AUTO_RUN) =>
        /\ runs <= fired
        /\ Dispatched => Armed /\ raised = "none"

====
